---------------------------- MODULE Spec2Model ----------------------------
(***************************************************************************)
(* blockparse.py: the two parsers that turn raw EVM input into the list    *)
(* of EVMOp objects handed to evm_cfg.blocks_from_ops.                     *)
(*                                                                         *)
(*   EVMDasmParser      one disassembly line per loop iteration            *)
(*   EVMBytecodeParser  one instruction of a byte buffer per iteration     *)
(*                                                                         *)
(* A disassembly line is a sequence of atoms: " " (a whitespace            *)
(* character), "=>" (the two-character arrow) and the words "1", "STOP",   *)
(* "PUSH1"; adjacent words form one token by concatenation ("PUSH1" "1"    *)
(* spells PUSH11, "1" "1" spells 11 in base 10 and 0x11 in base 16).       *)
(* No word of the alphabet holds '=' or '>', so the arrow atom is the only *)
(* place str.replace("=>", " ") acts on.                                   *)
(***************************************************************************)
EXTENDS Integers, Sequences, FiniteSets

VARIABLES
  variant,   \* "dasm" or "byte": the parser class that was constructed
  raw,       \* EVMBytecodeParser._raw, the byte buffer (<<>> for dasm, whose
             \* lines are read one at a time from the iterable)
  cursor,    \* EVMBytecodeParser.__pc
  ops,       \* BlockParser._ops
  status,    \* "new", "running", "returned", "raised": where parse() is
  built,     \* the argument lists evm_cfg.blocks_from_ops was called with
  loc,       \* EVMDasmParser.parse: "for" (loop head) or "body"
  l,         \* EVMDasmParser.parse: the loop variable l (<<>> when dead)
  i,         \* EVMDasmParser.parse: the loop variable i of enumerate
  warnings,  \* the line numbers logger.warning was called with
  fed,       \* how many atoms the disassembly iterable has yielded so far
  orig       \* the instruction list a round-trip buffer was encoded from

vars == <<variant, raw, cursor, ops, status, built, loc, l, i, warnings, fed, orig>>

---------------------------------------------------------------------------
\* Bounds of the model.

MaxBytes == 4      \* longest byte buffer
MaxLines == 3      \* most lines the disassembly iterable yields
MaxAtoms == 6      \* most atoms in all the lines together
MaxInstrs == 2     \* most instructions in a round-trip original
MaxPushWidth == 2  \* widest push in a round-trip original

---------------------------------------------------------------------------
\* The opcode table (module opcodes): the entries the model's inputs can
\* name, and 0x0c as a byte value with no opcode registered.

FirstPushCode == 96
LastPushCode == 127

OpcodeTable ==
  { [name |-> "STOP",   code |-> 0],
    [name |-> "ADD",    code |-> 1],
    [name |-> "PUSH1",  code |-> 96],
    [name |-> "PUSH2",  code |-> 97],
    [name |-> "PUSH3",  code |-> 98],
    [name |-> "PUSH11", code |-> 106] }

PUSH1 == CHOOSE o \in OpcodeTable : o.name = "PUSH1"

IsPush(op) == FirstPushCode <= op.code /\ op.code <= LastPushCode

\* opcode_by_value: <<op>>, or <<>> for the LookupError.
OpcodeByValue(b) ==
  IF \E o \in OpcodeTable : o.code = b
  THEN << CHOOSE o \in OpcodeTable : o.code = b >>
  ELSE << >>

\* The spelling of each mnemonic the line alphabet can form.
Spelling(tok) ==
  CASE tok = <<"STOP">> -> "STOP"
    [] tok = <<"PUSH1">> -> "PUSH1"
    [] tok = <<"PUSH1", "1">> -> "PUSH11"
    [] OTHER -> "?"

\* opcode_by_name: <<op>>, or <<>> for the LookupError.
OpcodeByName(tok) ==
  IF \E o \in OpcodeTable : o.name = Spelling(tok)
  THEN << CHOOSE o \in OpcodeTable : o.name = Spelling(tok) >>
  ELSE << >>

---------------------------------------------------------------------------
\* EVMOp(pc, opcode, value=None): the operand is <<>> for None, <<v>> else.

EVMOp(pc, opcode, value) == [pc |-> pc, opcode |-> opcode, operand |-> value]

---------------------------------------------------------------------------
\* Text helpers of EVMDasmParser.

Atoms == {" ", "=>", "1", "STOP", "PUSH1"}

\* The sequences over S of length at most n.
SeqsUpTo(S, n) == UNION { [1..k -> S] : k \in 0..n }

\* The lines of at most n atoms.
Lines == [n \in 0..MaxAtoms |-> SeqsUpTo(Atoms, n)]

\* str.split(): the maximal runs of non-whitespace atoms, in order.
RECURSIVE SplitFrom(_, _, _)
SplitFrom(s, k, cur) ==
  IF k > Len(s)
  THEN IF cur = << >> THEN << >> ELSE << cur >>
  ELSE IF s[k] = " "
       THEN IF cur = << >> THEN SplitFrom(s, k + 1, << >>)
            ELSE << cur >> \o SplitFrom(s, k + 1, << >>)
       ELSE SplitFrom(s, k + 1, Append(cur, s[k]))

Split(s) == SplitFrom(s, 1, << >>)

\* str.replace("=>", " ")
ReplaceArrow(s) == [k \in 1..Len(s) |-> IF s[k] = "=>" THEN " " ELSE s[k]]

\* int(tok): <<n>>, or <<>> for the ValueError. Only "1" is a decimal digit.
RECURSIVE DecValue(_, _)
DecValue(tok, k) ==
  IF k = 0 THEN 0 ELSE DecValue(tok, k - 1) * 10 + 1

ParseInt(tok) ==
  IF tok # << >> /\ \A k \in 1..Len(tok) : tok[k] = "1"
  THEN << DecValue(tok, Len(tok)) >>
  ELSE << >>

\* int(tok, 16): <<n>>, or <<>> for the ValueError. Only "1" is a hex digit.
RECURSIVE HexValue(_, _)
HexValue(tok, k) ==
  IF k = 0 THEN 0 ELSE HexValue(tok, k - 1) * 16 + 1

ParseHex(tok) ==
  IF tok # << >> /\ \A k \in 1..Len(tok) : tok[k] = "1"
  THEN << HexValue(tok, Len(tok)) >>
  ELSE << >>

\* EVMDasmParser.evm_op_from_dasm: [kind |-> "op", op |-> ...] on success,
\* else the exception raised. Arguments are evaluated left to right.
evm_op_from_dasm(line) ==
  LET toks == Split(ReplaceArrow(line))
      fail(e) == [kind |-> e, op |-> << >>]
  IN  IF Len(toks) > 2
      THEN IF ParseInt(toks[1]) = << >> THEN fail("ValueError")
           ELSE IF OpcodeByName(toks[2]) = << >> THEN fail("LookupError")
           ELSE IF ParseHex(toks[3]) = << >> THEN fail("ValueError")
           ELSE [kind |-> "op",
                 op |-> << EVMOp(ParseInt(toks[1])[1], OpcodeByName(toks[2])[1],
                                 ParseHex(toks[3])) >>]
      ELSE IF Len(toks) > 1
      THEN IF ParseInt(toks[1]) = << >> THEN fail("ValueError")
           ELSE IF OpcodeByName(toks[2]) = << >> THEN fail("LookupError")
           ELSE [kind |-> "op",
                 op |-> << EVMOp(ParseInt(toks[1])[1], OpcodeByName(toks[2])[1], << >>) >>]
      ELSE fail("NotImplementedError")

\* The except clause of parse: the exceptions it catches.
Caught == {"ValueError", "LookupError"}

---------------------------------------------------------------------------
\* EVMDasmParser.parse

InitDasm ==
  /\ variant = "dasm"
  /\ raw = << >>
  /\ cursor = 0
  /\ ops = << >>
  /\ status = "new"
  /\ built = << >>
  /\ loc = "for"
  /\ l = << >>
  /\ i = 0
  /\ warnings = << >>
  /\ fed = 0
  /\ orig = << >>

\* super().parse()
DasmStart ==
  /\ variant = "dasm"
  /\ status = "new"
  /\ status' = "running"
  /\ ops' = << >>
  /\ UNCHANGED <<variant, raw, cursor, built, loc, l, i, warnings, fed, orig>>

\* for i, l in enumerate(self._raw): the iterable yields its next line, any
\* line that fits what is left of MaxAtoms.
DasmFetch ==
  /\ variant = "dasm"
  /\ status = "running"
  /\ loc = "for"
  /\ i < MaxLines
  /\ l' \in Lines[MaxAtoms - fed]
  /\ fed' = fed + Len(l')
  /\ loc' = "body"
  /\ UNCHANGED <<variant, raw, cursor, ops, status, built, i, warnings, orig>>

\* One pass through the loop body with the line just fetched. An exception
\* the except clause does not catch leaves parse() with the frame as it is.
\* After the body l is not read again before the for statement rebinds it,
\* so it is cleared here.
DasmBody ==
  /\ variant = "dasm"
  /\ status = "running"
  /\ loc = "body"
  /\ LET n == Len(Split(l))
         r == evm_op_from_dasm(l)
         warn == Append(warnings, i + 1)
         continue == loc' = "for" /\ l' = << >> /\ i' = i + 1
     IN  IF n = 1
         THEN /\ warnings' = warn
              /\ continue
              /\ UNCHANGED <<ops, status>>
         ELSE IF n < 1
         THEN /\ continue
              /\ UNCHANGED <<ops, status, warnings>>
         ELSE IF r.kind = "op"
         THEN /\ ops' = Append(ops, r.op[1])
              /\ continue
              /\ UNCHANGED <<status, warnings>>
         ELSE IF r.kind \in Caught
         THEN /\ warnings' = warn
              /\ continue
              /\ UNCHANGED <<ops, status>>
         ELSE /\ status' = "raised"
              /\ UNCHANGED <<ops, warnings, loc, l, i>>
  /\ UNCHANGED <<variant, raw, cursor, built, fed, orig>>

\* The iterable is exhausted: return evm_cfg.blocks_from_ops(self._ops)
DasmFinish ==
  /\ variant = "dasm"
  /\ status = "running"
  /\ loc = "for"
  /\ built' = Append(built, ops)
  /\ status' = "returned"
  /\ UNCHANGED <<variant, raw, cursor, ops, loc, l, i, warnings, fed, orig>>

NextDasm ==
  \/ DasmStart
  \/ DasmFetch
  \/ DasmBody
  \/ DasmFinish

SpecDasm == InitDasm /\ [][NextDasm]_vars



---------------------------------------------------------------------------
\* EVMBytecodeParser

\* The byte values of the buffers: STOP, ADD, 0x0c (no opcode), PUSH1, PUSH2.
Bytes == {0, 1, 12, 96, 97}

Min(a, b) == IF a < b THEN a ELSE b

\* A slice that always holds n bytes, zero-filled past the buffer's end.
ConsumeBytesPadded(buf, pc, n) ==
  [k \in 1..n |-> IF pc + k <= Len(buf) THEN buf[pc + k] ELSE 0]

\* __consume, the slice: self._raw[self.__pc : self.__pc + n]
ConsumeBytes(buf, pc, n) == SubSeq(buf, pc + 1, Min(pc + n, Len(buf)))

\* A cursor that advances by the length of the slice it got.
ConsumeAdvanceClamped(buf, pc, n) == Min(pc + n, Len(buf))

\* __consume, the cursor: self.__pc += n
ConsumeAdvance(buf, pc, n) == pc + n

\* int.from_bytes(bs, "little")
RECURSIVE FromBytesLittle(_)
FromBytesLittle(bs) ==
  IF bs = << >> THEN 0 ELSE bs[1] + 256 * FromBytesLittle(Tail(bs))

\* int.from_bytes(bs, "big")
RECURSIVE FromBytes(_)
FromBytes(bs) ==
  IF bs = << >> THEN 0
  ELSE FromBytes(SubSeq(bs, 1, Len(bs) - 1)) * 256 + bs[Len(bs)]

\* A width counted from PUSH1 as zero.
ConstSizeFromZero(op) == IF IsPush(op) THEN op.code - PUSH1.code ELSE 0

\* const_size of parse: 0, or op.code - opcodes.PUSH1.code + 1 for a push.
ConstSize(op) == IF IsPush(op) THEN op.code - PUSH1.code + 1 ELSE 0

\* __has_more_bytes
HasMoreBytes == cursor < Len(raw)

InitByte ==
  /\ variant = "byte"
  /\ raw \in SeqsUpTo(Bytes, MaxBytes)
  /\ cursor = 0
  /\ ops = << >>
  /\ status = "new"
  /\ built = << >>
  /\ loc = "for"
  /\ l = << >>
  /\ i = 0
  /\ warnings = << >>
  /\ fed = 0
  /\ orig = << >>

\* super().parse()
ByteStart ==
  /\ variant = "byte"
  /\ status = "new"
  /\ status' = "running"
  /\ ops' = << >>
  /\ UNCHANGED <<variant, raw, cursor, built, loc, l, i, warnings, fed, orig>>

\* One pass through the while loop. opcode_by_value's LookupError is not
\* caught: it leaves parse() after the opcode byte was consumed.
ByteStep ==
  /\ variant = "byte"
  /\ status = "running"
  /\ HasMoreBytes
  /\ LET pc == cursor
         byte == FromBytes(ConsumeBytes(raw, cursor, 1))
         c1 == ConsumeAdvance(raw, cursor, 1)
         op == OpcodeByValue(byte)
     IN  IF op = << >>
         THEN /\ status' = "raised"
              /\ cursor' = c1
              /\ UNCHANGED ops
         ELSE LET const_size == ConstSize(op[1])
                  const == IF const_size > 0
                           THEN << FromBytes(ConsumeBytes(raw, c1, const_size)) >>
                           ELSE << >>
                  c2 == IF const_size > 0
                        THEN ConsumeAdvance(raw, c1, const_size)
                        ELSE c1
              IN  /\ ops' = Append(ops, EVMOp(pc, op[1], const))
                  /\ cursor' = c2
                  /\ UNCHANGED status
  /\ UNCHANGED <<variant, raw, built, loc, l, i, warnings, fed, orig>>

\* A hand-off that also runs when the loop was left by an exception.
ByteFinishAlways ==
  /\ variant = "byte"
  /\ status \in {"running", "raised"}
  /\ status = "running" => ~HasMoreBytes
  /\ built' = Append(built, ops)
  /\ status' = "returned"
  /\ UNCHANGED <<variant, raw, cursor, ops, loc, l, i, warnings, fed, orig>>

\* The loop is over: return evm_cfg.blocks_from_ops(self._ops)
ByteFinish ==
  /\ variant = "byte"
  /\ status = "running"
  /\ ~HasMoreBytes
  /\ built' = Append(built, ops)
  /\ status' = "returned"
  /\ UNCHANGED <<variant, raw, cursor, ops, loc, l, i, warnings, fed, orig>>

NextByte ==
  \/ ByteStart
  \/ ByteStep
  \/ ByteFinish

SpecByte == InitByte /\ [][NextByte]_vars

---------------------------------------------------------------------------
\* Either parser.

Init == InitDasm \/ InitByte

Next == NextDasm \/ NextByte

Spec == Init /\ [][Next]_vars

---------------------------------------------------------------------------
\* Byte buffers that encode a list of well-formed instructions: one opcode
\* byte, then for an N-byte push its operand in N big-endian bytes.

OperandValues == {0, 1, 255, 256, 65535, 65536}

\* v < 256^n
RECURSIVE Fits(_, _)
Fits(v, n) == IF n = 0 THEN v = 0 ELSE Fits(v \div 256, n - 1)

\* The n big-endian bytes of v.
RECURSIVE ToBytes(_, _)
ToBytes(v, n) ==
  IF n = 0 THEN << >> ELSE Append(ToBytes(v \div 256, n - 1), v % 256)

\* The immediate width of an opcode: N for PUSHN, 0 otherwise.
Width(op) == IF IsPush(op) THEN op.code - FirstPushCode + 1 ELSE 0

Instrs ==
  { [opcode |-> o, operand |-> << >>] : o \in { x \in OpcodeTable : ~IsPush(x) } }
  \cup
  { [opcode |-> o, operand |-> << v >>] :
      o \in { x \in OpcodeTable : IsPush(x) /\ Width(x) <= MaxPushWidth },
      v \in OperandValues }

WellFormed(ins) == ins.operand = << >> \/ Fits(ins.operand[1], Width(ins.opcode))

\* The byte offset of instruction k of the list.
RECURSIVE Offset(_, _)
Offset(is, k) ==
  IF k = 1 THEN 0 ELSE Offset(is, k - 1) + 1 + Width(is[k - 1].opcode)

Laid(is) == [k \in 1..Len(is) |-> EVMOp(Offset(is, k), is[k].opcode, is[k].operand)]

RECURSIVE Encode(_)
Encode(os) ==
  IF os = << >> THEN << >>
  ELSE LET o == os[Len(os)]
           imm == IF o.operand = << >> THEN << >>
                  ELSE ToBytes(o.operand[1], Width(o.opcode))
       IN  Encode(SubSeq(os, 1, Len(os) - 1)) \o << o.opcode.code >> \o imm

Programs ==
  { Laid(is) : is \in { x \in SeqsUpTo(Instrs, MaxInstrs) :
                          \A k \in 1..Len(x) : WellFormed(x[k]) } }

InitRoundTrip ==
  /\ variant = "byte"
  /\ orig \in Programs
  /\ raw = Encode(orig)
  /\ cursor = 0
  /\ ops = << >>
  /\ status = "new"
  /\ built = << >>
  /\ loc = "for"
  /\ l = << >>
  /\ i = 0
  /\ warnings = << >>
  /\ fed = 0

SpecRoundTrip == InitRoundTrip /\ [][NextByte]_vars

---------------------------------------------------------------------------
\* Properties of EVMDasmParser.parse (checked under SpecDasm).

\* The tokens of a line: split on whitespace after "=>" became a space.
Tokens(line) == Split(ReplaceArrow(line))

\* The loop body is about to process the line l.
AtBody == variant = "dasm" /\ status = "running" /\ loc = "body"

OneWarningMore == Len(warnings') = Len(warnings) + 1

\* C1: EVMDasmParser.parse is never aborted by a line: whatever the lines
\* hold, it does not raise.
C1_NeverAborted == variant = "dasm" => status # "raised"

\* C5: a line with exactly one token (after the "=>" substitution) appends
\* no Operation, emits exactly one warning, and the loop goes on.
C5_OneTokenLine ==
  [][ (AtBody /\ Len(Tokens(l)) = 1)
        => (ops' = ops /\ OneWarningMore /\ status' = "running" /\ loc' = "for") ]_vars

\* C6: a line with zero tokens (after the "=>" substitution) appends no
\* Operation and emits no warning.
C6_ZeroTokenLine ==
  [][ (AtBody /\ Len(Tokens(l)) = 0) => (ops' = ops /\ warnings' = warnings) ]_vars

\* A line of the shape PC MNEMONIC or PC MNEMONIC => HEX.
ValidLine(line) ==
  LET t == Tokens(line)
  IN  /\ Len(t) >= 2
      /\ ParseInt(t[1]) # << >>
      /\ OpcodeByName(t[2]) # << >>
      /\ Len(t) >= 3 => ParseHex(t[3]) # << >>

\* The Operation a valid line stands for.
LineOp(line) ==
  LET t == Tokens(line)
  IN  EVMOp(ParseInt(t[1])[1], OpcodeByName(t[2])[1],
            IF Len(t) >= 3 THEN ParseHex(t[3]) ELSE << >>)

\* C7: each valid line appends its Operation (in input order) and warns
\* nothing, each blank line changes nothing, each other line appends
\* nothing and warns exactly once; the block builder gets that list.
C7_OpsOfValidLines ==
  [][ /\ AtBody =>
           IF ValidLine(l)
           THEN ops' = Append(ops, LineOp(l)) /\ warnings' = warnings
           ELSE IF Split(l) = << >>
           THEN ops' = ops /\ warnings' = warnings
           ELSE ops' = ops /\ OneWarningMore
      /\ (variant = "dasm" /\ built' # built) => built' = << ops >> ]_vars

---------------------------------------------------------------------------
\* The operand invariant of both parsers (checked under Spec).

HasOperand(o) == o.operand # << >>

OperandIffPush(os) == \A k \in 1..Len(os) : HasOperand(os[k]) <=> IsPush(os[k].opcode)

\* C2, as stated: every Operation either parser hands to the block builder
\* has an operand if and only if its opcode is push-class.
C2_OperandIffPush == \A k \in 1..Len(built) : OperandIffPush(built[k])

\* C2, amended: what EVMBytecodeParser.parse hands over has an operand if
\* and only if the opcode is push-class; an Operation EVMDasmParser.parse
\* appends has an operand if and only if its line has a third token,
\* whatever the opcode, and the list is handed over as it is.
C2_OperandByParser ==
  [][ /\ variant = "byte" => \A k \in 1..Len(built') : OperandIffPush(built'[k])
      /\ (AtBody /\ ops' # ops) =>
           /\ Len(ops') = Len(ops) + 1
           /\ HasOperand(ops'[Len(ops')]) <=> Len(Tokens(l)) > 2
      /\ (variant = "dasm" /\ built' # built) => built' = << ops >> ]_vars

\* The text parser handed over a non-push Operation that has an operand.
C2_Witness ==
  /\ variant = "dasm"
  /\ status = "returned"
  /\ built # << >>
  /\ \E k \in 1..Len(built[1]) : HasOperand(built[1][k]) /\ ~IsPush(built[1][k].opcode)

---------------------------------------------------------------------------
\* Properties of EVMBytecodeParser.parse (checked under SpecByte).

\* C3: the first Operation has pc 0 and each later one's pc is the previous
\* pc plus 1 plus the previous opcode's immediate width, so pc values are
\* strictly increasing.
C3_PcChain ==
  variant = "byte" =>
    /\ ops # << >> => ops[1].pc = 0
    /\ \A k \in 1..(Len(ops) - 1) :
         /\ ops[k + 1].pc = ops[k].pc + 1 + Width(ops[k].opcode)
         /\ ops[k + 1].pc > ops[k].pc
    /\ \A k \in 1..Len(built) : built[k] = ops

\* A PUSH2 at pc 0 and the Operation after it, at pc 3, were handed over.
C3_Witness ==
  /\ variant = "byte"
  /\ status = "returned"
  /\ Len(ops) = 2
  /\ ops[1].opcode.name = "PUSH2"
  /\ ops[2].pc = 3

\* Whether the walk from offset at meets an opcode byte with no opcode.
RECURSIVE BadOpcodeReached(_, _)
BadOpcodeReached(buf, at) ==
  IF at >= Len(buf) THEN FALSE
  ELSE IF OpcodeByValue(buf[at + 1]) = << >> THEN TRUE
  ELSE BadOpcodeReached(buf, at + 1 + Width(OpcodeByValue(buf[at + 1])[1]))

\* How many instructions the walk from offset at meets.
RECURSIVE InstrCount(_, _)
InstrCount(buf, at) ==
  IF at >= Len(buf) \/ OpcodeByValue(buf[at + 1]) = << >> THEN 0
  ELSE 1 + InstrCount(buf, at + 1 + Width(OpcodeByValue(buf[at + 1])[1]))

\* C8: parse raises exactly when an opcode byte it reaches has no opcode,
\* and then the block builder is never called; otherwise it hands over the
\* full sequence, once.
C8_FailsAtomically ==
  variant = "byte" =>
    /\ status \in {"new", "running", "raised"} => built = << >>
    /\ status = "raised" => BadOpcodeReached(raw, 0)
    /\ status = "returned" =>
         /\ ~BadOpcodeReached(raw, 0)
         /\ built = << ops >>
         /\ Len(ops) = InstrCount(raw, 0)

\* parse raised with a partial sequence in _ops that nobody was handed.
C8_Witness ==
  /\ variant = "byte"
  /\ status = "raised"
  /\ Len(ops) >= 2
  /\ built = << >>

\* The unsigned big-endian value of a byte string, most significant first.
RECURSIVE Pow256(_)
Pow256(n) == IF n = 0 THEN 1 ELSE 256 * Pow256(n - 1)

RECURSIVE BigEndianValue(_)
BigEndianValue(bs) ==
  IF bs = << >> THEN 0
  ELSE bs[1] * Pow256(Len(bs) - 1) + BigEndianValue(Tail(bs))

\* The buffer ends inside the immediate of o.
Truncated(o) == IsPush(o.opcode) /\ o.pc + 1 + Width(o.opcode) > Len(raw)

\* C9: an Operation whose immediate the buffer cuts short is the last one,
\* its operand is present and is the big-endian value of the bytes that
\* are there, parse has not raised and its loop is over.
C9_TruncatedPush ==
  variant = "byte" =>
    \A k \in 1..Len(ops) :
      Truncated(ops[k]) =>
        /\ k = Len(ops)
        /\ ops[k].operand = << BigEndianValue(SubSeq(raw, ops[k].pc + 2, Len(raw))) >>
        /\ status \in {"running", "returned"}
        /\ ~HasMoreBytes

\* A trailing PUSH2 with one byte left was handed over with that byte's value.
C9_Witness ==
  /\ variant = "byte"
  /\ status = "returned"
  /\ Len(ops) = 2
  /\ ops[2].opcode.name = "PUSH2"
  /\ Len(raw) = ops[2].pc + 2
  /\ ops[2].operand = << raw[Len(raw)] >>
  /\ built = << ops >>

\* A step of the while loop.
LoopStep == variant = "byte" /\ status = "running" /\ HasMoreBytes

\* The immediate width of the opcode the step resolved (0 if it raised).
DeclaredWidth == IF ops' = ops THEN 0 ELSE Width(ops'[Len(ops')].opcode)

\* The immediate bytes the step took from the buffer.
BytesTaken ==
  IF ops' = ops THEN 0
  ELSE Min(DeclaredWidth, Len(raw) - (cursor + 1))

\* C10, as stated: each step advances the cursor by 1 plus the immediate
\* bytes actually consumed, and the cursor is never rewound.
C10_AdvanceByConsumed ==
  [][ /\ cursor' >= cursor
      /\ LoopStep => cursor' = cursor + 1 + BytesTaken ]_vars

\* C10, amended: each step advances the cursor by 1 plus the declared
\* immediate width of the opcode it resolved (0 when the lookup fails),
\* also when the buffer holds fewer bytes; the cursor is never rewound.
C10_AdvanceByDeclared ==
  [][ /\ cursor' >= cursor
      /\ LoopStep => cursor' = cursor + 1 + DeclaredWidth ]_vars

\* After a truncated push the cursor is beyond the buffer's end.
C10_Witness ==
  /\ variant = "byte"
  /\ status = "returned"
  /\ cursor > Len(raw)

---------------------------------------------------------------------------
\* The round trip (checked under SpecRoundTrip).

\* C4: parsing the encoding of a list of well-formed instructions does not
\* raise and hands over that list: same pc, opcode and operand throughout.
C4_RoundTrip ==
  /\ status # "raised"
  /\ status = "returned" => built = << orig >>

\* A two-instruction original whose first operand takes two bytes came back.
C4_Witness ==
  /\ status = "returned"
  /\ Len(orig) = 2
  /\ orig[1].operand = << 256 >>
  /\ orig[2].pc = 3
  /\ built = << orig >>

=============================================================================
